---- MODULE Spec2Model ----
(***************************************************************************)
(* A model of library/std/src/sys/windows/pipe.rs: the pipe factories      *)
(* (Pipes::new_synchronous, anon_pipe), the endpoint operations            *)
(* (AnonPipe::read / write over alertable_io_internal) and the concurrent  *)
(* two-pipe drain (read2 over AsyncPipe), the relay thread of              *)
(* spawn_pipe_relay and random_number called from several threads.         *)
(*                                                                         *)
(* Each component has its own specification over the shared variables:     *)
(*   SpecPipes  - anon_pipe and Pipes::new_synchronous                     *)
(*   SpecIo     - AnonPipe::read / AnonPipe::write / alertable_io_internal *)
(*   SpecRead2  - read2, AsyncPipe and its destructor (SpecRead2Live adds  *)
(*                the fairness of the thread, the kernel and the peers)    *)
(*   SpecRelay  - the thread spawned by spawn_pipe_relay (SpecRelayLive    *)
(*                adds the fairness of the thread)                         *)
(*   SpecRand   - random_number called by concurrent threads               *)
(* The variables of the components a specification does not run stay at    *)
(* their idle values.                                                      *)
(***************************************************************************)
EXTENDS Integers, Sequences, FiniteSets, TLC

VARIABLES
    \* ---- anon_pipe / Pipes::new_synchronous ----
    pf_pc,                      \* position inside the factory call
    pf_fn,                      \* which factory is called
    ours_readable,              \* argument
    their_handle_inheritable,   \* argument
    tries,                      \* anon_pipe: `tries`
    reject_remote_clients_flag, \* anon_pipe: TRUE = c::PIPE_REJECT_REMOTE_CLIENTS, FALSE = 0
    name,                       \* anon_pipe: the random part of `name` (0: not yet set)
    N,                          \* random_number: the static counter N
    ours,                       \* anon_pipe: the handle created by CreateNamedPipeW
    pf_result,                  \* the io::Result<Pipes> returned
    attempts,                   \* history: one record per CreateNamedPipeW call
    opened,                     \* history: what File::open of `theirs` reported
    \* ---- AnonPipe::read / AnonPipe::write / alertable_io_internal ----
    io_pc,                      \* position inside the call
    io_self,                    \* the variant of `self`: "Sync" or "Async"
    io_op,                      \* "read" or "write"
    buf_len,                    \* buf.len()
    kio,                        \* the kernel's side of the overlapped operation
    apc,                        \* the arguments the kernel queued for `callback`
    async_result,               \* alertable_io_internal: `async_result`
    io_inner,                   \* what the underlying read or write path yielded
    io_result,                  \* what read / write returned
    last_error,                 \* the thread's GetLastError value
    wakes,                      \* history: returns of SleepEx so far
    \* ---- read2 / AsyncPipe, per side 1 (p1, v1) and 2 (p2, v2) ----
    r2_pc,                      \* position inside read2
    r2_side,                    \* the side the current call works on
    r2_fin,                     \* TRUE inside finish() of r2_side
    r2_result,                  \* the io::Result<()> read2 returns
    state,                      \* AsyncPipe::state
    dst,                        \* AsyncPipe::dst: the caller's Vec<u8>
    v0,                         \* the contents of v1, v2 when read2 was called
    event,                      \* AsyncPipe::event: TRUE = signaled
    kread,                      \* the kernel's overlapped read on AsyncPipe::pipe
    leaked,                     \* TRUE once drop has forgotten buffer and OVERLAPPED
    pipe,                       \* bytes written by the peer and not yet read
    written,                    \* how many bytes the peer has written
    closed,                     \* TRUE once the peer has closed its end
    faulted,                    \* history: some call has reported an error
    r2_ret,                     \* history: the last call of result() / schedule_read()
    eof,                        \* history: a call on the side has returned Ok(false)
    teardown,                   \* history: what the destructor of the side did
    \* ---- the thread spawned by spawn_pipe_relay ----
    rl_pc,                      \* position inside the closure
    buf,                        \* `buf`
    len,                        \* `len`
    start,                      \* `start`
    rl_ret,                     \* what the last reader.read / writer.write returned
    rl_in,                      \* history: the bytes reader.read has delivered
    rl_out,                     \* history: the bytes writer.write has accepted
    rl_why,                     \* history: why the thread left the loop
    \* ---- random_number called by the threads of Threads ----
    rn_pc,                      \* position of each thread inside random_number
    rn_calls,                   \* the calls each thread has completed
    rn_ret,                     \* history: the value each thread's last call returned
    seedings,                   \* history: the stores of a seed into N
    reseeded                    \* history: a seed was stored over a non-zero N

pfVars == <<pf_pc, pf_fn, ours_readable, their_handle_inheritable, tries,
            reject_remote_clients_flag, name, N, ours, pf_result, attempts,
            opened>>

ioVars == <<io_pc, io_self, io_op, buf_len, kio, apc, async_result, io_inner,
            io_result, last_error, wakes>>

r2Vars == <<r2_pc, r2_side, r2_fin, r2_result, state, dst, v0, event, kread,
            leaked, pipe, written, closed, faulted, r2_ret, eof, teardown>>

rlVars == <<rl_pc, buf, len, start, rl_ret, rl_in, rl_out, rl_why>>

rnVars == <<rn_pc, rn_calls, rn_ret, seedings, reseeded>>

vars == <<pfVars, ioVars, r2Vars, rlVars, rnVars>>

\* what the actions of one component leave alone
notPf == <<ioVars, r2Vars, rlVars, rnVars>>

notIo == <<pfVars, r2Vars, rlVars, rnVars>>

notR2 == <<pfVars, ioVars, rlVars, rnVars>>

notRl == <<pfVars, ioVars, r2Vars, rnVars>>

\* random_number works on the static N; the rest of the factories' state
notRn == <<pf_pc, pf_fn, ours_readable, their_handle_inheritable, tries,
           reject_remote_clients_flag, name, ours, pf_result, attempts,
           opened, ioVars, r2Vars, rlVars>>

----------------------------------------------------------------------------
(* Bounds of the model *)

\* the seeds hashmap_random_keys() may return are 1..MaxSeed
MaxSeed == 2

\* the buffers handed to read / write hold 0..MaxBuf bytes
MaxBuf == 3

\* the width of c::DWORD: c::DWORD::MAX is taken below MaxBuf, not as
\* 2^32 - 1, so that the clamping of the length happens
DWORD_MAX == 2

\* SleepEx returns at most MaxForeignApc times for a completion routine that
\* is not this operation's
MaxForeignApc == 2

\* the peer of each pipe handed to read2 writes at most MaxBytes bytes
MaxBytes == 2

\* the source of the relay delivers at most MaxRelayBytes bytes
MaxRelayBytes == 3

\* the length of the relay's `buf`, taken below MaxRelayBytes, not as 4096, so
\* that the stream takes several reads
RelayBufLen == 2

\* random_number is called by the threads 1..NumThreads, at most MaxCalls
\* times each
NumThreads == 2

MaxCalls == 2

----------------------------------------------------------------------------
(* Values *)

None == [tag |-> "None"]

Ok(v) == [tag |-> "Ok", val |-> v]

Err(e) == [tag |-> "Err", err |-> e]

IsOk(r) == r.tag = "Ok"

IsErr(r) == r.tag = "Err"

\* the raw OS error codes the model distinguishes
ERROR_SUCCESS == "ERROR_SUCCESS"

ERROR_ACCESS_DENIED == "ERROR_ACCESS_DENIED"

ERROR_INVALID_PARAMETER == "ERROR_INVALID_PARAMETER"

ERROR_BROKEN_PIPE == "ERROR_BROKEN_PIPE"

ERROR_INVALID_HANDLE == "ERROR_INVALID_HANDLE"

ERROR_NO_DATA == "ERROR_NO_DATA"

\* the failures a system call may report through GetLastError
OsErrors == {ERROR_ACCESS_DENIED, ERROR_INVALID_PARAMETER, ERROR_BROKEN_PIPE,
             ERROR_INVALID_HANDLE}

\* AnonPipe::Sync(handle) / AnonPipe::Async(handle)
AnonPipe(tag, handle) == [tag |-> tag, handle |-> handle]

\* a kernel handle to one end of a pipe: what it may be used for
Handle(read, write, overlapped, inheritable) ==
    [read |-> read, write |-> write, overlapped |-> overlapped,
     inheritable |-> inheritable]

----------------------------------------------------------------------------
(* random_number, called from one thread *)

\* the value returned and the counter left behind, when the random source
\* yields `seed` on a first call
random_number(n, seed) ==
    LET seeded == IF n # 0 THEN n ELSE seed
    IN  [value |-> seeded, next |-> seeded + 1]

----------------------------------------------------------------------------
(* Pipes::new_synchronous *)

\* the two handles CreatePipe fills in
CreatePipeRead == Handle(TRUE, FALSE, FALSE, FALSE)

CreatePipeWrite == Handle(FALSE, TRUE, FALSE, FALSE)

\* let (ours, theirs) = if ours_readable { (read, write) } else { (write, read) }
SyncOrient(readable) ==
    IF readable THEN <<CreatePipeRead, CreatePipeWrite>>
                ELSE <<CreatePipeWrite, CreatePipeRead>>

NewSynchronous ==
    /\ pf_pc = "call"
    /\ pf_fn = "new_synchronous"
    /\ \/ \E e \in OsErrors :            \* CreatePipe(..) == 0
            pf_result' = Err(e)
       \/ LET pair == SyncOrient(ours_readable)
          IN  IF their_handle_inheritable
              THEN \/ \E e \in OsErrors :   \* theirs.set_inheritable()?
                        pf_result' = Err(e)
                   \/ pf_result' =
                        Ok([ours   |-> AnonPipe("Sync", pair[1]),
                            theirs |-> AnonPipe("Sync",
                                         [pair[2] EXCEPT !.inheritable = TRUE])])
              ELSE pf_result' =
                        Ok([ours   |-> AnonPipe("Sync", pair[1]),
                            theirs |-> AnonPipe("Sync", pair[2])])
    /\ pf_pc' = "ret"
    /\ UNCHANGED <<pf_fn, ours_readable, their_handle_inheritable, tries,
                   reject_remote_clients_flag, name, N, ours, attempts,
                   opened>>
    /\ UNCHANGED notPf

----------------------------------------------------------------------------
(* anon_pipe *)

\* the bound of `if tries < 10`
MaxTries == 10

\* let mut tries = 0; let mut reject_remote_clients_flag = PIPE_REJECT_REMOTE_CLIENTS
AnonPipeEnter ==
    /\ pf_pc = "call"
    /\ pf_fn = "anon_pipe"
    /\ tries' = 0
    /\ reject_remote_clients_flag' = TRUE
    /\ pf_pc' = "loop"
    /\ UNCHANGED <<pf_fn, ours_readable, their_handle_inheritable, name, N,
                   ours, pf_result, attempts, opened>>
    /\ UNCHANGED notPf

\* a variant that formats the name once per counted attempt: the retry that
\* follows the dropping of the flag reuses the name
AnonPipeLoopTopKeepName ==
    /\ pf_pc = "loop"
    /\ IF attempts # <<>> /\ attempts[Len(attempts)].tries = tries + 1
       THEN UNCHANGED <<name, N>>
       ELSE \E seed \in 1..MaxSeed :
              LET r == random_number(N, seed)
              IN  /\ name' = r.value
                  /\ N' = r.next
    /\ tries' = tries + 1
    /\ pf_pc' = "create"
    /\ UNCHANGED <<pf_fn, ours_readable, their_handle_inheritable,
                   reject_remote_clients_flag, ours, pf_result, attempts,
                   opened>>
    /\ UNCHANGED notPf

\* the head of the loop: tries += 1; name = format!(.., random_number())
AnonPipeLoopTop ==
    /\ pf_pc = "loop"
    /\ \E seed \in 1..MaxSeed :
          LET r == random_number(N, seed)
          IN  /\ name' = r.value
              /\ N' = r.next
    /\ tries' = tries + 1
    /\ pf_pc' = "create"
    /\ UNCHANGED <<pf_fn, ours_readable, their_handle_inheritable,
                   reject_remote_clients_flag, ours, pf_result, attempts,
                   opened>>
    /\ UNCHANGED notPf

\* the flags of CreateNamedPipeW: PIPE_ACCESS_INBOUND or PIPE_ACCESS_OUTBOUND,
\* always with FILE_FLAG_OVERLAPPED
OursHandle(readable) == Handle(readable, ~readable, TRUE, FALSE)

\* a slip: `tries <= 10`, one collision more is retried
OnCreateErrorOffByOne(t, flag, e) ==
    IF t <= MaxTries
    THEN IF e = ERROR_ACCESS_DENIED THEN "retry"
         ELSE IF flag /\ e = ERROR_INVALID_PARAMETER THEN "drop"
         ELSE "return"
    ELSE "return"

\* a slip: every failure below the bound is retried
OnCreateErrorRetryAll(t, flag, e) ==
    IF t < MaxTries
    THEN IF flag /\ e = ERROR_INVALID_PARAMETER THEN "drop" ELSE "retry"
    ELSE "return"

\* what the code does with a failed CreateNamedPipeW: "retry" (continue),
\* "drop" (clear the flag, give the try back, continue) or "return"
OnCreateError(t, flag, e) ==
    IF t < MaxTries
    THEN IF e = ERROR_ACCESS_DENIED THEN "retry"
         ELSE IF flag /\ e = ERROR_INVALID_PARAMETER THEN "drop"
         ELSE "return"
    ELSE "return"

\* CreateNamedPipeW and the handling of its failure
AnonPipeCreate ==
    /\ pf_pc = "create"
    /\ \/ /\ ours' = OursHandle(ours_readable)     \* a valid handle: break
          /\ pf_pc' = "open"
          /\ attempts' = Append(attempts,
                [name |-> name, flag |-> reject_remote_clients_flag,
                 tries |-> tries, outcome |-> ERROR_SUCCESS])
          /\ UNCHANGED <<tries, reject_remote_clients_flag, pf_result>>
       \/ \E e \in OsErrors :                       \* INVALID_HANDLE_VALUE
            LET todo == OnCreateError(tries, reject_remote_clients_flag, e)
            IN  /\ attempts' = Append(attempts,
                      [name |-> name, flag |-> reject_remote_clients_flag,
                       tries |-> tries, outcome |-> e])
                /\ pf_pc' = IF todo = "return" THEN "ret" ELSE "loop"
                /\ pf_result' = IF todo = "return" THEN Err(e) ELSE pf_result
                /\ reject_remote_clients_flag' =
                      IF todo = "drop" THEN FALSE ELSE reject_remote_clients_flag
                /\ tries' = IF todo = "drop" THEN tries - 1 ELSE tries
                /\ UNCHANGED ours
    /\ UNCHANGED <<pf_fn, ours_readable, their_handle_inheritable, name, N,
                   opened>>
    /\ UNCHANGED notPf

\* a slip: `theirs` opened with the orientation of `ours`
TheirsHandleSameSide(readable, inheritable) ==
    Handle(readable, ~readable, FALSE, inheritable)

\* opts.write(ours_readable); opts.read(!ours_readable); bInheritHandle
TheirsHandle(readable, inheritable) ==
    Handle(~readable, readable, FALSE, inheritable)

\* File::open(Path::new(&name), &opts)? and the Pipes returned
AnonPipeOpen ==
    /\ pf_pc = "open"
    /\ \/ \E e \in OsErrors :
            /\ opened' = e
            /\ pf_result' = Err(e)
       \/ /\ opened' = ERROR_SUCCESS
          /\ pf_result' =
               Ok([ours   |-> AnonPipe("Async", ours),
                   theirs |-> AnonPipe("Sync",
                                TheirsHandle(ours_readable,
                                             their_handle_inheritable))])
    /\ pf_pc' = "ret"
    /\ UNCHANGED <<pf_fn, ours_readable, their_handle_inheritable, tries,
                   reject_remote_clients_flag, name, N, ours, attempts>>
    /\ UNCHANGED notPf

Sides == {1, 2}

Other(i) == 3 - i

\* State::NotReading, State::Reading, State::Read(amt)
NotReading == [tag |-> "NotReading"]

Reading == [tag |-> "Reading"]

Read(amt) == [tag |-> "Read", amt |-> amt]

\* a Vec<u8>: the bytes in its allocation from the start on, its length and
\* its capacity
Vec(data, cap) == [data |-> data, len |-> Len(data), cap |-> cap]

\* no overlapped read is known to the kernel
NoRead == [st |-> "none", off |-> 0, size |-> 0, n |-> 0]

\* no call of result() or schedule_read() has returned
NoCall == [fn |-> "none", side |-> 0, val |-> None]

\* the destructor of a side has not run
NoTeardown == [st |-> "none", cancel |-> "none", wait |-> "none"]

Threads == 1..NumThreads

\* read2 is not called
Read2Idle ==
    /\ r2_pc = "idle"
    /\ r2_side = 1
    /\ r2_fin = FALSE
    /\ r2_result = None
    /\ state = [i \in Sides |-> NotReading]
    /\ dst = [i \in Sides |-> Vec(<<>>, 0)]
    /\ v0 = [i \in Sides |-> <<>>]
    /\ event = [i \in Sides |-> TRUE]
    /\ kread = [i \in Sides |-> NoRead]
    /\ leaked = [i \in Sides |-> FALSE]
    /\ pipe = [i \in Sides |-> <<>>]
    /\ written = [i \in Sides |-> 0]
    /\ closed = [i \in Sides |-> FALSE]
    /\ faulted = FALSE
    /\ r2_ret = NoCall
    /\ eof = [i \in Sides |-> FALSE]
    /\ teardown = [i \in Sides |-> NoTeardown]

\* no relay thread is spawned
RelayIdle ==
    /\ rl_pc = "idle"
    /\ buf = <<>>
    /\ len = 0
    /\ start = 0
    /\ rl_ret = None
    /\ rl_in = <<>>
    /\ rl_out = <<>>
    /\ rl_why = "none"

\* no thread calls random_number on its own
RandIdle ==
    /\ rn_pc = [t \in Threads |-> "idle"]
    /\ rn_calls = [t \in Threads |-> 0]
    /\ rn_ret = [t \in Threads |-> 0]
    /\ seedings = 0
    /\ reseeded = FALSE

\* no call of read or write is in progress
IoIdle ==
    /\ io_pc = "idle"
    /\ io_self = "Sync"
    /\ io_op = "read"
    /\ buf_len = 0
    /\ kio = "none"
    /\ apc = None
    /\ async_result = None
    /\ io_inner = None
    /\ io_result = None
    /\ last_error = ERROR_SUCCESS
    /\ wakes = 0

\* no factory call is in progress
PipesIdle ==
    /\ pf_pc = "idle"
    /\ pf_fn = "anon_pipe"
    /\ ours_readable = FALSE
    /\ their_handle_inheritable = FALSE
    /\ tries = 0
    /\ reject_remote_clients_flag = TRUE
    /\ name = 0
    /\ N = 0
    /\ ours = None
    /\ pf_result = None
    /\ attempts = <<>>
    /\ opened = "not yet"

InitPipes ==
    /\ pf_pc = "call"
    /\ pf_fn \in {"anon_pipe", "new_synchronous"}
    /\ ours_readable \in BOOLEAN
    /\ their_handle_inheritable \in BOOLEAN
    /\ tries = 0
    /\ reject_remote_clients_flag = TRUE
    /\ name = 0
    /\ N \in 0..MaxSeed            \* 0: random_number was never called before
    /\ ours = None
    /\ pf_result = None
    /\ attempts = <<>>
    /\ opened = "not yet"
    /\ IoIdle
    /\ Read2Idle
    /\ RelayIdle
    /\ RandIdle

NextPipes ==
    \/ NewSynchronous
    \/ AnonPipeEnter
    \/ AnonPipeLoopTop
    \/ AnonPipeCreate
    \/ AnonPipeOpen

SpecPipes == InitPipes /\ [][NextPipes]_vars

----------------------------------------------------------------------------
(* The factories: claims C5 - C9 *)

\* the attempts that failed and were followed by another attempt or will be
Retried(k) ==
    \/ k < Len(attempts)
    \/ /\ k = Len(attempts)
       /\ pf_pc \in {"loop", "create"}
       /\ pf_result = None

\* attempt k was the last one and its error e is what the call returned
Returned(k, e) ==
    /\ k = Len(attempts)
    /\ pf_pc = "ret"
    /\ pf_result = Err(e)

\* attempt k failed on the unsupported option while the option was set
UnsupportedOption(k) ==
    /\ attempts[k].outcome = ERROR_INVALID_PARAMETER
    /\ attempts[k].flag

\* C5: every Pipes value returned has ours readable iff ours_readable and
\* theirs the complement, each end either read- or write-oriented; anon_pipe
\* tags ours Async and theirs Sync, new_synchronous tags both Sync.
C5_Orientation ==
    (pf_pc = "ret" /\ IsOk(pf_result)) =>
        LET p == pf_result.val
        IN  /\ p.ours.handle.read = ours_readable
            /\ p.ours.handle.write = ~ours_readable
            /\ p.theirs.handle.read = ~ours_readable
            /\ p.theirs.handle.write = ours_readable
            /\ pf_fn = "anon_pipe" =>
                  (p.ours.tag = "Async" /\ p.theirs.tag = "Sync")
            /\ pf_fn = "new_synchronous" =>
                  (p.ours.tag = "Sync" /\ p.theirs.tag = "Sync")

C5_Witness ==
    /\ pf_pc = "ret"
    /\ IsOk(pf_result)
    /\ pf_fn = "anon_pipe"
    /\ ~ours_readable
    /\ their_handle_inheritable
    /\ Len(attempts) > 1

\* C6: a collision (ERROR_ACCESS_DENIED) on a counted attempt below the 10th
\* is retried and not returned, a collision on the 10th counted attempt is
\* returned as the error, and `tries` never exceeds 10.
C6_CollisionRetry ==
    /\ tries <= MaxTries
    /\ \A k \in DOMAIN attempts :
          attempts[k].outcome = ERROR_ACCESS_DENIED =>
              /\ attempts[k].tries <= MaxTries
              /\ attempts[k].tries < MaxTries => Retried(k)
              /\ attempts[k].tries = MaxTries => Returned(k, ERROR_ACCESS_DENIED)

C6_Witness ==
    /\ pf_pc = "ret"
    /\ pf_result = Err(ERROR_ACCESS_DENIED)
    /\ Len(attempts) = MaxTries + 1
    /\ attempts[Len(attempts)].tries = MaxTries

\* C7: whenever creation fails with ERROR_INVALID_PARAMETER while the
\* remote-client-rejection option is set, the option is dropped and creation
\* is retried with the try given back, on every attempt number 1..10.
C7_DropOnEveryAttempt ==
    \A k \in DOMAIN attempts :
        UnsupportedOption(k) =>
            /\ Retried(k)
            /\ k < Len(attempts) =>
                  /\ ~attempts[k + 1].flag
                  /\ attempts[k + 1].tries = attempts[k].tries

\* C8 as claimed: the attempt that follows the dropping of the option is made
\* under the name of the attempt that just failed.
C8_SameNameAfterDrop ==
    \A k \in DOMAIN attempts :
        (UnsupportedOption(k) /\ k < Len(attempts)) =>
            attempts[k + 1].name = attempts[k].name

\* C8 as amended: the attempt that follows the dropping of the option has the
\* same attempt number but a regenerated name, the next value of the counter
\* of random_number, which no earlier attempt used.
C8_NewNameAfterDrop ==
    \A k \in DOMAIN attempts :
        (UnsupportedOption(k) /\ k < Len(attempts)) =>
            /\ attempts[k + 1].tries = attempts[k].tries
            /\ attempts[k + 1].name = attempts[k].name + 1
            /\ \A j \in 1..k : attempts[j].name # attempts[k + 1].name

C8_Witness ==
    \E k \in DOMAIN attempts :
        /\ UnsupportedOption(k)
        /\ k < Len(attempts)
        /\ attempts[k].tries > 1

\* C9: a creation failure that is neither a collision nor a failure on the
\* unsupported option with the option still set is returned at once, no
\* further attempt being made; a failure to open `theirs` is returned as the
\* error and no Pipes value is produced.
C9_FatalErrors ==
    /\ \A k \in DOMAIN attempts :
          LET e == attempts[k].outcome
          IN  (/\ e # ERROR_SUCCESS
               /\ e # ERROR_ACCESS_DENIED
               /\ ~UnsupportedOption(k)) => Returned(k, e)
    /\ opened \in OsErrors =>
          (pf_pc = "ret" /\ pf_result = Err(opened))

C9_Witness ==
    /\ pf_pc = "ret"
    /\ Len(attempts) > 2
    /\ attempts[Len(attempts)].outcome = ERROR_INVALID_PARAMETER
    /\ ~attempts[Len(attempts)].flag
    /\ attempts[Len(attempts)].tries < MaxTries

----------------------------------------------------------------------------
(* AnonPipe::read, AnonPipe::write and alertable_io_internal *)

\* let len = min(buf.len(), c::DWORD::MAX as usize) as c::DWORD
IoLen(n) == IF n < DWORD_MAX THEN n ELSE DWORD_MAX

\* the failures a read or a write of a pipe may report
IoErrors == {ERROR_BROKEN_PIPE, ERROR_NO_DATA, ERROR_ACCESS_DENIED,
             ERROR_INVALID_HANDLE}

\* io::Error::kind() of an OS error
ErrorKind(e) ==
    IF e \in {ERROR_BROKEN_PIPE, ERROR_NO_DATA} THEN "BrokenPipe"
    ELSE IF e = ERROR_ACCESS_DENIED THEN "PermissionDenied"
    ELSE "Uncategorized"

\* a slip: the match of AnonPipe::read without its first arm
ReadResultUntranslated(result) == result

\* AnonPipe::read: match result { Err(e) if e.kind() == BrokenPipe => Ok(0),
\*                                _ => result }
ReadResult(result) ==
    IF IsErr(result) /\ ErrorKind(result.err) = "BrokenPipe"
    THEN Ok(0)
    ELSE result

\* a slip: write given the match of read
AnonPipeReturnBothTranslated(op, result) == ReadResult(result)

\* what read / write return for what the underlying path yielded
AnonPipeReturn(op, result) ==
    IF op = "read" THEN ReadResult(result) ELSE result

\* alertable_io_internal, STEP 4: match result.error { ERROR_SUCCESS =>
\* Ok(result.transfered), error => Err(from_raw_os_error(error)) }
AlertableResult(slot) ==
    IF slot.error = ERROR_SUCCESS THEN Ok(slot.transfered) ELSE Err(slot.error)

\* Self::Sync(ref handle) => handle.read(buf) / handle.write(buf): a blocking
\* call, which transfers up to buf.len() bytes or fails
SyncIo ==
    /\ io_pc = "call"
    /\ io_self = "Sync"
    /\ \/ \E n \in 0..buf_len :
            /\ io_inner' = Ok(n)
            /\ io_result' = AnonPipeReturn(io_op, Ok(n))
            /\ UNCHANGED last_error
       \/ \E e \in IoErrors :
            /\ io_inner' = Err(e)
            /\ io_result' = AnonPipeReturn(io_op, Err(e))
            /\ last_error' = e
    /\ io_pc' = "ret"
    /\ UNCHANGED <<io_self, io_op, buf_len, kio, apc, async_result, wakes>>
    /\ UNCHANGED notIo

\* alertable_io_internal, STEP 1: ReadFileEx / WriteFileEx; FALSE is returned
\* at once as the error, TRUE leaves the operation in flight
AlertableStart ==
    /\ io_pc = "call"
    /\ io_self = "Async"
    /\ \/ \E e \in IoErrors :
            /\ last_error' = e
            /\ io_inner' = Err(e)
            /\ io_result' = AnonPipeReturn(io_op, Err(e))
            /\ io_pc' = "ret"
            /\ UNCHANGED kio
       \/ /\ kio' = "pending"
          /\ io_pc' = "sleep"
          /\ UNCHANGED <<last_error, io_inner, io_result>>
    /\ UNCHANGED <<io_self, io_op, buf_len, apc, async_result, wakes>>
    /\ UNCHANGED notIo

\* the kernel finishes the operation and queues `callback` with the error
\* code and the byte count, to run when the thread is next alertable
KernelFinish ==
    /\ kio = "pending"
    /\ \E e \in {ERROR_SUCCESS} \cup IoErrors, n \in 0..IoLen(buf_len) :
          apc' = [error |-> e, transfered |-> n]
    /\ kio' = "completed"
    /\ UNCHANGED <<io_pc, io_self, io_op, buf_len, async_result, io_inner,
                   io_result, last_error, wakes>>
    /\ UNCHANGED notIo

\* STEP 2 and STEP 3: SleepEx(INFINITE, TRUE) returns after a completion
\* routine ran: `callback`, which fills the slot, or a routine some other
\* operation of the thread queued
SleepEx ==
    /\ io_pc = "sleep"
    /\ \/ /\ kio = "completed"
          /\ async_result' = [tag |-> "Some", error |-> apc.error,
                              transfered |-> apc.transfered]
          /\ kio' = "delivered"
       \/ /\ kio = "pending"
          /\ wakes < MaxForeignApc
          /\ UNCHANGED <<async_result, kio>>
    /\ wakes' = wakes + 1
    /\ io_pc' = "woke"
    /\ UNCHANGED <<io_self, io_op, buf_len, apc, io_inner, io_result,
                   last_error>>
    /\ UNCHANGED notIo

\* a slip: the slot is looked at once and an empty slot taken for no bytes
AlertableCheckOnce ==
    /\ io_pc = "woke"
    /\ io_inner' = IF async_result # None THEN AlertableResult(async_result)
                   ELSE Ok(0)
    /\ io_result' = AnonPipeReturn(io_op, io_inner')
    /\ io_pc' = "ret"
    /\ UNCHANGED <<io_self, io_op, buf_len, kio, apc, async_result, last_error,
                   wakes>>
    /\ UNCHANGED notIo

\* if let Some(result) = async_result { break result }, then STEP 4 and the
\* return through read / write; an empty slot goes back to SleepEx
AlertableCheck ==
    /\ io_pc = "woke"
    /\ IF async_result # None
       THEN /\ io_inner' = AlertableResult(async_result)
            /\ io_result' = AnonPipeReturn(io_op, io_inner')
            /\ io_pc' = "ret"
       ELSE /\ io_pc' = "sleep"
            /\ UNCHANGED <<io_inner, io_result>>
    /\ UNCHANGED <<io_self, io_op, buf_len, kio, apc, async_result, last_error,
                   wakes>>
    /\ UNCHANGED notIo

InitIo ==
    /\ io_pc = "call"
    /\ io_self \in {"Sync", "Async"}
    /\ io_op \in {"read", "write"}
    /\ buf_len \in 0..MaxBuf
    /\ kio = "none"
    /\ apc = None
    /\ async_result = None
    /\ io_inner = None
    /\ io_result = None
    /\ last_error = ERROR_SUCCESS
    /\ wakes = 0
    /\ PipesIdle
    /\ Read2Idle
    /\ RelayIdle
    /\ RandIdle

NextIo ==
    \/ SyncIo
    \/ AlertableStart
    \/ KernelFinish
    \/ SleepEx
    \/ AlertableCheck

SpecIo == InitIo /\ [][NextIo]_vars

----------------------------------------------------------------------------
(* The endpoint operations: claims C3, C4 and C10 *)

BrokenPipe(r) == IsErr(r) /\ ErrorKind(r.err) = "BrokenPipe"

\* C3: AnonPipe::read returns no error of kind BrokenPipe: whenever the
\* blocking read, the start of the alertable read or its completion yields
\* one, read returns Ok(0), for a Sync and for an Async endpoint.
C3_ReadBrokenPipeIsEof ==
    (io_pc = "ret" /\ io_op = "read") =>
        /\ ~BrokenPipe(io_result)
        /\ BrokenPipe(io_inner) => io_result = Ok(0)

C3_Witness ==
    /\ io_pc = "ret"
    /\ io_op = "read"
    /\ io_self = "Async"
    /\ kio = "delivered"
    /\ buf_len > 0
    /\ io_inner = Err(ERROR_BROKEN_PIPE)
    /\ io_result = Ok(0)

\* C4: AnonPipe::write returns what the underlying write yielded, a
\* broken-pipe error included (never Ok(0) in its place), and read returns
\* every error that is not of kind BrokenPipe unchanged.
C4_OtherErrorsUnchanged ==
    io_pc = "ret" =>
        /\ io_op = "write" => io_result = io_inner
        /\ (io_op = "read" /\ IsErr(io_inner) /\ ~BrokenPipe(io_inner)) =>
              io_result = io_inner

C4_Witness ==
    /\ io_pc = "ret"
    /\ io_op = "write"
    /\ io_self = "Async"
    /\ kio = "delivered"
    /\ io_result = Err(ERROR_BROKEN_PIPE)

\* C10: alertable_io_internal does not return while its operation is in
\* flight.  A failed start is returned as the error with no wait entered; after
\* a successful start the call stays in its wait loop until `callback` has
\* filled the slot, and returns the byte count the kernel reported if the
\* error code is ERROR_SUCCESS and that error otherwise.
C10_NoReturnInFlight ==
    io_self = "Async" =>
        /\ kio \in {"pending", "completed"} =>
              (io_pc \in {"sleep", "woke"} /\ async_result = None)
        /\ (io_pc = "woke" /\ async_result # None) => kio = "delivered"
        /\ (io_pc = "ret" /\ kio = "none") =>
              (wakes = 0 /\ io_inner = Err(last_error))
        /\ (io_pc = "ret" /\ kio # "none") =>
              /\ kio = "delivered"
              /\ async_result # None
              /\ io_inner = IF apc.error = ERROR_SUCCESS
                            THEN Ok(apc.transfered)
                            ELSE Err(apc.error)

C10_Witness ==
    /\ io_pc = "ret"
    /\ io_self = "Async"
    /\ kio = "delivered"
    /\ wakes = MaxForeignApc + 1
    /\ apc.error = ERROR_ACCESS_DENIED
    /\ apc.transfered > 0

----------------------------------------------------------------------------
(* read2 and AsyncPipe *)

Min(a, b) == IF a <= b THEN a ELSE b

Max(a, b) == IF a >= b THEN a ELSE b

\* the k-th byte the peer of side i writes, and its first n bytes
PeerByte(i, k) == 10 * i + k

PeerBytes(i, n) == [k \in 1..n |-> PeerByte(i, k)]

\* the vectors a caller may pass: empty without allocation, full, and with
\* room for one byte; 0 is a byte of the caller's
InitVecs == {Vec(<<>>, 0), Vec(<<0>>, 1), Vec(<<0>>, 2)}

\* what the caller reads from a vector: its first len bytes
Contents(v) ==
    [k \in 1..v.len |-> IF k <= Len(v.data) THEN v.data[k] ELSE "uninit"]

\* Vec::reserve(additional): room for at least `additional` more bytes, the
\* first len bytes kept; a reallocation grows the capacity amortized
Reserve(v, additional) ==
    IF v.cap - v.len >= additional
    THEN v
    ELSE [v EXCEPT !.cap = Max(Max(2 * v.cap, v.len + additional), 8),
                   !.data = SubSeq(v.data, 1, v.len)]

\* a slip: the slice is taken without reserving
SliceToEndNoReserve(v) == v

\* slice_to_end(v): the vector after the two reserves; the slice returned is
\* its bytes from len up to the capacity
slice_to_end(v) ==
    LET a == IF v.cap = 0 THEN Reserve(v, 16) ELSE v
    IN  IF a.cap = a.len THEN Reserve(a, 1) ELSE a

\* a slip: the state is left as it was when result() returns
ResultStateKept(st) == st

\* result(): self.state = State::NotReading
ResultState(st) == NotReading

\* a slip: set_len(amt)
ResultCommitAmtOnly(v, amt) == [v EXCEPT !.len = amt]

\* a slip: the length is left as it was
ResultCommitKeepLen(v, amt) == v

\* result(): let len = self.dst.len(); self.dst.set_len(len + amt)
ResultCommit(v, amt) == [v EXCEPT !.len = v.len + amt]

\* the failures the calls made by read2 may report
R2Errors == {ERROR_ACCESS_DENIED, ERROR_INVALID_HANDLE}

\* `return Err(..)` or `?` in read2 or below: the destructors run next, p2's
\* before p1's
R2Fail(e) ==
    /\ r2_result' = Err(e)
    /\ r2_pc' = "drop"
    /\ r2_side' = 2
    /\ faulted' = TRUE
    /\ UNCHANGED r2_fin

\* result() or schedule_read() of side i returned Ok(true)
R2True(i, next) ==
    /\ r2_pc' = next
    /\ UNCHANGED <<r2_side, r2_fin, r2_result>>

\* a slip: read2 returns Ok(()) as soon as one side is at its end
R2FalseNoFinish(i) ==
    /\ r2_result' = Ok("unit")
    /\ r2_pc' = "drop"
    /\ r2_side' = 2
    /\ UNCHANGED r2_fin

\* result() or schedule_read() of side i returned Ok(false): in the loop of
\* read2 `return p.finish()` on the other side, in finish() `Ok(())`
R2False(i) ==
    IF r2_fin
    THEN /\ r2_result' = Ok("unit")
         /\ r2_pc' = "drop"
         /\ r2_side' = 2
         /\ UNCHANGED r2_fin
    ELSE /\ r2_fin' = TRUE
         /\ r2_side' = Other(i)
         /\ r2_pc' = "result"
         /\ UNCHANGED r2_result

\* result() or schedule_read() of side i returns val
R2Returns(fn, i, val) ==
    /\ r2_ret' = [fn |-> fn, side |-> i, val |-> val]
    /\ eof' = [eof EXCEPT ![i] = @ \/ val = Ok(FALSE)]

\* a slip: Handle::new_event(true, false)
NewEventUnsignaled == FALSE

\* Handle::new_event(true, true): manually reset, initially signaled
NewEvent == TRUE

\* AsyncPipe::new for p1 and p2: both events created signaled
R2New ==
    /\ r2_pc = "new"
    /\ r2_pc' = "wait"
    /\ event' = [i \in Sides |-> NewEvent]
    /\ UNCHANGED <<r2_side, r2_fin, r2_result, state, dst, v0, kread,
                   leaked, pipe, written, closed, faulted>>
    /\ UNCHANGED <<r2_ret, eof, teardown>>
    /\ UNCHANGED notR2

\* Handle::new_event fails for p1 or for p2 (p1, NotReading, is dropped)
R2NewFail ==
    /\ r2_pc = "new"
    /\ \E e \in R2Errors :
          /\ r2_result' = Err(e)
          /\ r2_pc' = "done"
          /\ faulted' = TRUE
    /\ UNCHANGED <<r2_side, r2_fin, state, dst, v0, event, kread, leaked, pipe,
                   written, closed>>
    /\ UNCHANGED <<r2_ret, eof, teardown>>
    /\ UNCHANGED notR2

\* WaitForMultipleObjects(2, objs, FALSE, INFINITE): blocks until an event is
\* signaled and returns the lowest signaled index
R2Wait ==
    /\ r2_pc = "wait"
    /\ \E i \in Sides :
          /\ event[i]
          /\ \A j \in Sides : j < i => ~event[j]
          /\ r2_side' = i
    /\ r2_fin' = FALSE
    /\ r2_pc' = "result"
    /\ UNCHANGED <<r2_result, state, dst, v0, event, kread, leaked, pipe,
                   written, closed, faulted>>
    /\ UNCHANGED <<r2_ret, eof, teardown>>
    /\ UNCHANGED notR2

\* WaitForMultipleObjects returns neither index: Err(last_os_error())
R2WaitFail ==
    /\ r2_pc = "wait"
    /\ \E e \in R2Errors : R2Fail(e)
    /\ UNCHANGED <<state, dst, v0, event, kread, leaked, pipe, written, closed>>
    /\ UNCHANGED <<r2_ret, eof, teardown>>
    /\ UNCHANGED notR2

\* p.result() in the loop of read2 or in finish(), and the branch on it
R2Result ==
    /\ r2_pc = "result"
    /\ LET i == r2_side
       IN  \/ /\ state[i] = NotReading           \* return Ok(true)
              /\ R2True(i, "sched")
              /\ R2Returns("result", i, Ok(TRUE))
              /\ UNCHANGED <<state, dst, kread>>
           \/ /\ state[i].tag = "Read"
              /\ state' = [state EXCEPT ![i] = ResultState(@)]
              /\ dst' = [dst EXCEPT ![i] = ResultCommit(@, state[i].amt)]
              /\ IF state[i].amt # 0 THEN R2True(i, "sched") ELSE R2False(i)
              /\ R2Returns("result", i, Ok(state[i].amt # 0))
              /\ UNCHANGED kread
           \/ /\ state[i] = Reading                \* overlapped_result(.., true)
              /\ kread[i].st = "completed"
              /\ state' = [state EXCEPT ![i] = ResultState(@)]
              /\ dst' = [dst EXCEPT ![i] = ResultCommit(@, kread[i].n)]
              /\ kread' = [kread EXCEPT ![i] = NoRead]
              /\ IF kread[i].n # 0 THEN R2True(i, "sched") ELSE R2False(i)
              /\ R2Returns("result", i, Ok(kread[i].n # 0))
    /\ UNCHANGED <<v0, event, leaked, pipe, written, closed, faulted,
                   teardown>>
    /\ UNCHANGED notR2

\* overlapped_result fails: `?` leaves result() with the state still Reading
R2ResultFail ==
    /\ r2_pc = "result"
    /\ state[r2_side] = Reading
    /\ \E e \in R2Errors :
          /\ R2Fail(e)
          /\ R2Returns("result", r2_side, Err(e))
    /\ UNCHANGED <<state, dst, v0, event, kread, leaked, pipe, written, closed,
                   teardown>>
    /\ UNCHANGED notR2

\* a slip: every scheduled read is taken as pending
ScheduleStateAlwaysReading(pending, amt) == Reading

\* schedule_read(): self.state = match amt { Some(amt) => State::Read(amt),
\* None => State::Reading }
ScheduleState(pending, amt) == IF pending THEN Reading ELSE Read(amt)

\* the assertion at the entry of schedule_read() has failed
Panic == [tag |-> "panic"]

\* p.schedule_read() and the branch on it.  read_overlapped either finishes
\* at once (Some(n): bytes of the pipe, or 0 at the end of the stream; the
\* event is left signaled) or leaves the read pending (None; the event is
\* reset).
R2Sched ==
    /\ r2_pc = "sched"
    /\ LET i == r2_side
           v == slice_to_end(dst[i])
           n == Min(Len(pipe[i]), v.cap - v.len)
       IN  IF state[i] # NotReading
           THEN /\ r2_pc' = "panic"              \* assert_eq!
                /\ R2Returns("schedule_read", i, Panic)
                /\ UNCHANGED <<r2_side, r2_fin, r2_result, state, dst, event,
                               kread, pipe>>
           ELSE \/ /\ pipe[i] # <<>>               \* Some(amt): what fits
                   /\ dst' = [dst EXCEPT ![i] =
                                [v EXCEPT !.data = SubSeq(v.data, 1, v.len)
                                                   \o SubSeq(pipe[i], 1, n)]]
                   /\ pipe' = [pipe EXCEPT ![i] = SubSeq(@, n + 1, Len(@))]
                   /\ event' = [event EXCEPT ![i] = TRUE]
                   /\ IF n = 0                   \* Some(0) => return Ok(false)
                      THEN /\ R2False(i)
                           /\ R2Returns("schedule_read", i, Ok(FALSE))
                           /\ UNCHANGED state
                      ELSE /\ state' = [state EXCEPT ![i] =
                                          ScheduleState(FALSE, n)]
                           /\ R2True(i, IF r2_fin THEN "result" ELSE "wait")
                           /\ R2Returns("schedule_read", i, Ok(TRUE))
                   /\ UNCHANGED kread
                \/ /\ pipe[i] = <<>>               \* Some(0) => return Ok(false)
                   /\ closed[i]
                   /\ dst' = [dst EXCEPT ![i] = v]
                   /\ \E sig \in BOOLEAN : event' = [event EXCEPT ![i] = sig]
                   /\ R2False(i)
                   /\ R2Returns("schedule_read", i, Ok(FALSE))
                   /\ UNCHANGED <<state, kread, pipe>>
                \/ /\ dst' = [dst EXCEPT ![i] = v]  \* None
                   /\ kread' = [kread EXCEPT ![i] =
                                  [st |-> "pending", off |-> v.len,
                                   size |-> v.cap - v.len, n |-> 0]]
                   /\ event' = [event EXCEPT ![i] = FALSE]
                   /\ state' = [state EXCEPT ![i] = ScheduleState(TRUE, 0)]
                   /\ R2True(i, IF r2_fin THEN "result" ELSE "wait")
                   /\ R2Returns("schedule_read", i, Ok(TRUE))
                   /\ UNCHANGED pipe
    /\ UNCHANGED <<v0, leaked, written, closed, faulted, teardown>>
    /\ UNCHANGED notR2

\* read_overlapped fails: `?` leaves schedule_read() in state NotReading
R2SchedFail ==
    /\ r2_pc = "sched"
    /\ state[r2_side] = NotReading
    /\ dst' = [dst EXCEPT ![r2_side] = slice_to_end(@)]
    /\ \E e \in R2Errors :
          /\ R2Fail(e)
          /\ R2Returns("schedule_read", r2_side, Err(e))
    /\ UNCHANGED <<state, v0, event, kread, leaked, pipe, written, closed,
                   teardown>>
    /\ UNCHANGED notR2

\* the next destructor, or the return of read2
R2Dropped(i) ==
    IF i = 2
    THEN /\ r2_side' = 1
         /\ r2_pc' = "drop"
    ELSE /\ r2_pc' = "done"
         /\ UNCHANGED r2_side

\* a slip: buffer and OVERLAPPED are freed with the AsyncPipe
LeakNothing(i) == UNCHANGED <<dst, leaked>>

\* a slip: only the OVERLAPPED is forgotten, the vector is left to the caller
LeakKeepsVec(i) ==
    /\ leaked' = [leaked EXCEPT ![i] = TRUE]
    /\ UNCHANGED dst

\* drop: mem::take(self.dst) and mem::forget of buffer and OVERLAPPED
Leak(i) ==
    /\ dst' = [dst EXCEPT ![i] = Vec(<<>>, 0)]
    /\ leaked' = [leaked EXCEPT ![i] = TRUE]

\* a slip: the destructor cancels and waits in every state
DropNeededAlways(st) == TRUE

\* drop: match self.state { State::Reading => {}, _ => return }
DropNeeded(st) == st = Reading

\* Drop for AsyncPipe: nothing unless Reading; then cancel_io(), which makes
\* a read still pending end as aborted
R2Drop ==
    /\ r2_pc = "drop"
    /\ LET i == r2_side
       IN  IF ~DropNeeded(state[i])
           THEN /\ R2Dropped(i)
                /\ teardown' = [teardown EXCEPT ![i].st = state[i].tag]
                /\ UNCHANGED <<kread, event>>
           ELSE /\ r2_pc' = "dropwait"
                /\ teardown' = [teardown EXCEPT ![i].st = state[i].tag,
                                                ![i].cancel = "ok"]
                /\ IF kread[i].st = "pending"
                   THEN /\ kread' = [kread EXCEPT ![i].st = "aborted"]
                        /\ event' = [event EXCEPT ![i] = TRUE]
                   ELSE UNCHANGED <<kread, event>>
                /\ UNCHANGED r2_side
    /\ UNCHANGED <<r2_fin, r2_result, state, dst, v0, leaked, pipe, written,
                   closed, faulted, r2_ret, eof>>
    /\ UNCHANGED notR2

\* Drop for AsyncPipe: cancel_io() fails, buffer and OVERLAPPED are leaked
R2DropCancelFail ==
    /\ r2_pc = "drop"
    /\ DropNeeded(state[r2_side])
    /\ Leak(r2_side)
    /\ R2Dropped(r2_side)
    /\ faulted' = TRUE
    /\ teardown' = [teardown EXCEPT ![r2_side].st = state[r2_side].tag,
                                    ![r2_side].cancel = "err"]
    /\ UNCHANGED <<r2_fin, r2_result, state, v0, event, kread, pipe, written,
                   closed, r2_ret, eof>>
    /\ UNCHANGED notR2

\* Drop for AsyncPipe: self.result() after the cancel succeeded
R2DropResult ==
    /\ r2_pc = "dropwait"
    /\ LET i == r2_side
       IN  /\ kread[i].st = "completed"
           /\ state' = [state EXCEPT ![i] = ResultState(@)]
           /\ dst' = [dst EXCEPT ![i] = ResultCommit(@, kread[i].n)]
           /\ kread' = [kread EXCEPT ![i] = NoRead]
           /\ R2Dropped(i)
           /\ teardown' = [teardown EXCEPT ![i].wait = "ok"]
           /\ r2_ret' = [fn |-> "result", side |-> i, val |-> Ok(kread[i].n # 0)]
    /\ UNCHANGED <<r2_fin, r2_result, v0, event, leaked, pipe, written, closed,
                   faulted, eof>>
    /\ UNCHANGED notR2

\* Drop for AsyncPipe: self.result() fails (the read was aborted, or the wait
\* itself failed), buffer and OVERLAPPED are leaked
R2DropResultFail ==
    /\ r2_pc = "dropwait"
    /\ Leak(r2_side)
    /\ R2Dropped(r2_side)
    /\ faulted' = TRUE
    /\ teardown' = [teardown EXCEPT ![r2_side].wait = "err"]
    /\ \E e \in R2Errors :
          r2_ret' = [fn |-> "result", side |-> r2_side, val |-> Err(e)]
    /\ UNCHANGED <<r2_fin, r2_result, state, v0, event, kread, pipe, written,
                   closed, eof>>
    /\ UNCHANGED notR2

\* the kernel completes a pending read of side i: with bytes of the pipe, or
\* with none once the peer has closed; it sets the event
KernelComplete(i) ==
    /\ kread[i].st = "pending"
    /\ pipe[i] # <<>> \/ closed[i]
    /\ LET n == Min(Len(pipe[i]), kread[i].size)
       IN  /\ kread' = [kread EXCEPT ![i].st = "completed", ![i].n = n]
           /\ pipe' = [pipe EXCEPT ![i] = SubSeq(@, n + 1, Len(@))]
           /\ dst' = IF leaked[i]
                     THEN dst
                     ELSE [dst EXCEPT ![i].data =
                             SubSeq(@, 1, kread[i].off) \o SubSeq(pipe[i], 1, n)]
    /\ event' = [event EXCEPT ![i] = TRUE]
    /\ UNCHANGED <<r2_pc, r2_side, r2_fin, r2_result, state, v0, leaked,
                   written, closed, faulted>>
    /\ UNCHANGED <<r2_ret, eof, teardown>>
    /\ UNCHANGED notR2

\* the peer of side i writes its next byte
PeerWrite(i) ==
    /\ ~closed[i]
    /\ written[i] < MaxBytes
    /\ pipe' = [pipe EXCEPT ![i] = Append(@, PeerByte(i, written[i] + 1))]
    /\ written' = [written EXCEPT ![i] = @ + 1]
    /\ UNCHANGED <<r2_pc, r2_side, r2_fin, r2_result, state, dst, v0, event,
                   kread, leaked, closed, faulted>>
    /\ UNCHANGED <<r2_ret, eof, teardown>>
    /\ UNCHANGED notR2

\* the peer of side i closes its end
PeerClose(i) ==
    /\ ~closed[i]
    /\ closed' = [closed EXCEPT ![i] = TRUE]
    /\ UNCHANGED <<r2_pc, r2_side, r2_fin, r2_result, state, dst, v0, event,
                   kread, leaked, pipe, written, faulted>>
    /\ UNCHANGED <<r2_ret, eof, teardown>>
    /\ UNCHANGED notR2

InitRead2 ==
    /\ r2_pc = "new"
    /\ r2_side = 1
    /\ r2_fin = FALSE
    /\ r2_result = None
    /\ state = [i \in Sides |-> NotReading]
    /\ dst \in [Sides -> InitVecs]
    /\ v0 = [i \in Sides |-> dst[i].data]
    /\ event = [i \in Sides |-> TRUE]
    /\ kread = [i \in Sides |-> NoRead]
    /\ leaked = [i \in Sides |-> FALSE]
    /\ pipe = [i \in Sides |-> <<>>]
    /\ written = [i \in Sides |-> 0]
    /\ closed = [i \in Sides |-> FALSE]
    /\ faulted = FALSE
    /\ r2_ret = NoCall
    /\ eof = [i \in Sides |-> FALSE]
    /\ teardown = [i \in Sides |-> NoTeardown]
    /\ PipesIdle
    /\ IoIdle
    /\ RelayIdle
    /\ RandIdle

\* the steps of the thread in which no call fails
R2Run ==
    \/ R2New
    \/ R2Wait
    \/ R2Result
    \/ R2Sched
    \/ R2Drop
    \/ R2DropResult

\* the steps in which a call fails
R2Failure ==
    \/ R2NewFail
    \/ R2WaitFail
    \/ R2ResultFail
    \/ R2SchedFail
    \/ R2DropCancelFail
    \/ R2DropResultFail

NextRead2 ==
    \/ R2Run
    \/ R2Failure
    \/ \E i \in Sides : KernelComplete(i)
    \/ \E i \in Sides : PeerWrite(i)
    \/ \E i \in Sides : PeerClose(i)

SpecRead2 == InitRead2 /\ [][NextRead2]_vars

\* the thread runs while it is not blocked, every pending read the kernel can
\* complete is completed, and each peer closes its end
SpecRead2Live ==
    /\ InitRead2
    /\ [][NextRead2]_vars
    /\ WF_vars(R2Run)
    /\ \A i \in Sides : WF_vars(KernelComplete(i))
    /\ \A i \in Sides : WF_vars(PeerClose(i))

----------------------------------------------------------------------------
(* The drain: claims C1 and C2 *)

R2ReturnedOk == r2_pc = "done" /\ r2_result = Ok("unit")

\* C1: read2 terminates: when every read the kernel can complete is
\* completed, both peers close and no call reports an error, read2 returns
\* Ok(()), also when one side closes without data while the other delivers
\* several chunks.
C1_Terminates == <>(faulted \/ R2ReturnedOk)

\* side 1 closed without a byte; side 2 delivered MaxBytes bytes into a vector
\* with room for one, which takes more than one read
C1_Witness ==
    /\ R2ReturnedOk
    /\ ~faulted
    /\ written[1] = 0
    /\ written[2] = MaxBytes
    /\ v0[2] = <<0>>
    /\ dst[2].cap > 2

\* C2: when read2 returns Ok(()), each vector holds what it held at the call
\* followed by exactly the bytes its own peer wrote, in order.
C2_BuffersComplete ==
    R2ReturnedOk =>
        \A i \in Sides :
            /\ closed[i]
            /\ pipe[i] = <<>>
            /\ Contents(dst[i]) = v0[i] \o PeerBytes(i, written[i])

C2_Witness ==
    /\ R2ReturnedOk
    /\ written[1] = MaxBytes
    /\ written[2] = MaxBytes
    /\ v0[1] = <<0>>
    /\ dst[1].cap > 2
    /\ v0[2] = <<>>

----------------------------------------------------------------------------
(* The destructor of AsyncPipe: claims C12 and C19 *)

\* the destructor of side i has returned
TornDown(i) ==
    /\ teardown[i].st # "none"
    /\ teardown[i].st = "Reading" =>
          teardown[i].cancel = "err" \/ teardown[i].wait # "none"

\* the destructor of the side at r2_side returns in this step
TearsDown ==
    /\ r2_pc \in {"drop", "dropwait"}
    /\ \E i \in Sides : i = r2_side /\ ~TornDown(i) /\ TornDown(i)'

\* C12: a side torn down in state Reading has its read cancelled first and
\* waits for the result only after the cancel succeeded; buffer and
\* OVERLAPPED are leaked when the cancel or the wait fails and released only
\* when both succeed; a side torn down in state NotReading or Read(n) is left
\* as it is; so no side is released while the kernel still has its read.
C12_TeardownKeepsMemory ==
    /\ [](\A i \in Sides :
            /\ teardown[i].wait # "none" => teardown[i].cancel = "ok"
            /\ teardown[i].st = "Reading" => teardown[i].cancel # "none"
            /\ teardown[i].st \in {"NotReading", "Read"} =>
                  /\ teardown[i].cancel = "none"
                  /\ teardown[i].wait = "none"
                  /\ ~leaked[i]
            /\ TornDown(i) =>
                  (leaked[i] <=> \/ teardown[i].cancel = "err"
                                 \/ teardown[i].wait = "err")
            /\ TornDown(i) /\ ~leaked[i] => kread[i].st = "none")
    /\ [][TearsDown /\ state[r2_side] # Reading =>
            UNCHANGED <<state, dst, kread, event, leaked>>]_vars

\* side 2 was released after cancel and wait succeeded, side 1 was leaked
\* because its cancel failed
C12_Witness ==
    /\ r2_pc = "done"
    /\ teardown[2] = [st |-> "Reading", cancel |-> "ok", wait |-> "ok"]
    /\ ~leaked[2]
    /\ teardown[1] = [st |-> "Reading", cancel |-> "err", wait |-> "none"]
    /\ leaked[1]

\* C19 as stated: buffer and OVERLAPPED of a side are leaked only when both
\* the cancel and the wait for the result fail.
C19_LeakOnlyWhenBothFail ==
    \A i \in Sides :
        leaked[i] => teardown[i].cancel = "err" /\ teardown[i].wait = "err"

\* C19 as amended: buffer and OVERLAPPED of a side are leaked only when the
\* side is torn down in state Reading and either the cancel fails, the wait
\* then not being attempted, or the cancel succeeds and the wait fails.
C19_LeakWhenEitherFails ==
    \A i \in Sides :
        leaked[i] =>
            /\ teardown[i].st = "Reading"
            /\ \/ teardown[i].cancel = "err" /\ teardown[i].wait = "none"
               \/ teardown[i].cancel = "ok" /\ teardown[i].wait = "err"

\* one side leaked after a failed cancel, the other after a failed wait
C19_Witness ==
    /\ r2_pc = "done"
    /\ leaked[1] /\ teardown[1].cancel = "err"
    /\ leaked[2] /\ teardown[2].cancel = "ok" /\ teardown[2].wait = "err"

----------------------------------------------------------------------------
(* The state of one side: claims C13 to C17 *)

\* the thread of read2 returns from a call positioned at pc in this step
R2Leaves(pc) == r2_pc = pc /\ <<r2_pc, r2_side>>' # <<r2_pc, r2_side>>

\* C13: schedule_read is entered only in state NotReading, so its assertion
\* never fails, and the kernel holds a read of a side only while the side is
\* in state Reading: at most one read of a side is outstanding.
C13_OneReadOutstanding ==
    /\ r2_pc # "panic"
    /\ r2_pc = "sched" => state[r2_side] = NotReading
    /\ \A i \in Sides :
          /\ kread[i].st # "none" => state[i] = Reading
          /\ state[i] = Reading => kread[i].st # "none"

\* finish() is about to schedule the next read of a side whose earlier read
\* was resolved with bytes
C13_Witness ==
    /\ r2_pc = "sched"
    /\ r2_fin
    /\ r2_ret = [fn |-> "result", side |-> r2_side, val |-> Ok(TRUE)]
    /\ dst[r2_side].len > Len(v0[r2_side])

\* C14: once a call on a side has returned Ok(false), read2 makes no further
\* call of result() or schedule_read() on that side, which stays NotReading
\* with no read at the kernel, and read2 returns Ok(()) only after the other
\* side has returned Ok(false) from a call too.
C14_EofSideIsLeft ==
    /\ \A i \in Sides :
          eof[i] =>
              /\ ~(r2_side = i /\ r2_pc \in {"result", "sched", "dropwait"})
              /\ state[i] = NotReading
              /\ kread[i].st = "none"
    /\ R2ReturnedOk => \A i \in Sides : eof[i]
    /\ eof[1] \/ eof[2] => r2_fin

\* side 1 is at its end, and finish() reschedules side 2 after resolving a
\* read with bytes
C14_Witness ==
    /\ eof[1]
    /\ ~eof[2]
    /\ r2_pc = "sched"
    /\ r2_side = 2
    /\ dst[2].len > Len(v0[2])

\* C15: schedule_read in state NotReading: a read that finishes at once with
\* n > 0 bytes gives Read(n), true and a signaled event; a pending read gives
\* Reading, true and an unsignaled event; a read that finishes at once with
\* no byte gives false and NotReading; a failed read gives the error and
\* NotReading; the length and the contents of the vector stay as they are.
C15_ScheduleRead ==
    [][R2Leaves("sched") /\ state[r2_side] = NotReading =>
        LET i == r2_side
            r == r2_ret'.val
            n == Len(pipe[i]) - Len(pipe'[i])
        IN  /\ r2_ret'.fn = "schedule_read"
            /\ r2_ret'.side = i
            /\ dst'[i].len = dst[i].len
            /\ Contents(dst'[i]) = Contents(dst[i])
            /\ IF IsErr(r)
               THEN state'[i] = NotReading /\ n = 0
               ELSE IF n > 0
               THEN r = Ok(TRUE) /\ state'[i] = Read(n) /\ event'[i]
                    /\ kread'[i].st = "none"
               ELSE IF kread'[i].st = "pending"
               THEN r = Ok(TRUE) /\ state'[i] = Reading /\ ~event'[i]
               ELSE r = Ok(FALSE) /\ state'[i] = NotReading]_vars

\* the last call scheduled a read of side 1 that finished at once, while the
\* read of side 2 is pending
C15_Witness ==
    /\ r2_ret = [fn |-> "schedule_read", side |-> 1, val |-> Ok(TRUE)]
    /\ state[1].tag = "Read"
    /\ event[1]
    /\ state[2] = Reading
    /\ ~event[2]

\* C16: result() in state Read(n) or Reading adds the transferred count to
\* the length, sets NotReading and returns false iff the count is 0; in state
\* NotReading it returns true and changes nothing; when the wait fails it
\* returns the error and changes nothing.
C16_Result ==
    [][R2Leaves("result") \/ (R2Leaves("dropwait") /\ ~leaked'[r2_side]) =>
        LET i == r2_side
            r == r2_ret'.val
            amt == IF state[i] = Reading THEN kread[i].n ELSE state[i].amt
        IN  /\ r2_ret'.fn = "result"
            /\ r2_ret'.side = i
            /\ IF state[i] = NotReading
               THEN r = Ok(TRUE) /\ state'[i] = state[i] /\ dst'[i] = dst[i]
               ELSE IF IsErr(r)
               THEN state[i] = Reading /\ state'[i] = state[i]
                    /\ dst'[i] = dst[i]
               ELSE /\ state[i] = Reading => kread[i].st = "completed"
                    /\ dst'[i].len = dst[i].len + amt
                    /\ dst'[i].cap = dst[i].cap
                    /\ state'[i] = NotReading
                    /\ r = Ok(amt # 0)]_vars

\* the last call resolved a pending read of side 2 that had transferred
\* bytes, after side 1 was resolved with none
C16_Witness ==
    /\ r2_ret = [fn |-> "result", side |-> 2, val |-> Ok(TRUE)]
    /\ r2_pc = "sched"
    /\ eof[1]
    /\ dst[2].len = Len(v0[2]) + MaxBytes
    /\ state[2] = NotReading

\* C17: while a side stays in state Reading its vector keeps capacity,
\* length and contents (unless the destructor moves the whole vector out to
\* leak it); the capacity changes only in schedule_read entered in state
\* NotReading, the length only in result() in state Read(n) or after the
\* kernel has completed the read.
C17_BufferReserved ==
    [][\A i \in Sides :
          leaked'[i] = leaked[i] =>
              /\ state[i] = Reading /\ state'[i] = Reading =>
                    /\ dst'[i].cap = dst[i].cap
                    /\ dst'[i].len = dst[i].len
                    /\ Contents(dst'[i]) = Contents(dst[i])
              /\ dst'[i].cap # dst[i].cap =>
                    r2_pc = "sched" /\ r2_side = i /\ state[i] = NotReading
              /\ dst'[i].len # dst[i].len =>
                    /\ r2_pc \in {"result", "dropwait"}
                    /\ r2_side = i
                    /\ \/ state[i].tag = "Read"
                       \/ state[i] = Reading /\ kread[i].st = "completed"]_vars

\* the kernel has completed the read of side 1 into the room schedule_read
\* reserved, and result() has not run yet
C17_Witness ==
    /\ state[1] = Reading
    /\ kread[1].st = "completed"
    /\ kread[1].n > 0
    /\ dst[1].cap > Len(v0[1]) + 1
    /\ dst[1].len = Len(v0[1])

----------------------------------------------------------------------------
(* The thread spawned by spawn_pipe_relay *)

\* the k-th byte the source delivers
SourceByte(k) == k

\* let mut buf = [0_u8; 4096]
ZeroBuf == [k \in 1..RelayBufLen |-> 0]

\* the thread has left the loop
RelayExit(why) ==
    /\ rl_pc' = "exit"
    /\ rl_why' = why

\* 'reader: while let Ok(len) = reader.read(&mut buf) { if len == 0 { break; }
\* let mut start = 0; ..: the read delivers the next bytes of the source into
\* the front of buf, or none at its end, or fails
RelayRead ==
    /\ rl_pc = "read"
    /\ \E inner \in {Ok(n) : n \in 0..Min(RelayBufLen,
                                           MaxRelayBytes - Len(rl_in))}
                     \cup {Err(e) : e \in IoErrors} :
          LET r == AnonPipeReturn("read", inner)
              n == IF IsOk(inner) THEN inner.val ELSE 0
              got == [k \in 1..n |-> SourceByte(Len(rl_in) + k)]
          IN  /\ rl_ret' = r
              /\ buf' = got \o SubSeq(buf, n + 1, RelayBufLen)
              /\ rl_in' = rl_in \o got
              /\ IF IsErr(r)
                 THEN RelayExit("read error") /\ UNCHANGED <<len, start>>
                 ELSE /\ len' = r.val
                      /\ IF r.val = 0
                         THEN RelayExit("end") /\ UNCHANGED start
                         ELSE /\ start' = 0
                              /\ rl_pc' = "write"
                              /\ UNCHANGED rl_why
    /\ UNCHANGED rl_out
    /\ UNCHANGED notRl

\* while let Ok(written) = writer.write(&buf[start..len]): the write accepts
\* a front part of the slice, possibly empty, or fails
RelayWrite ==
    /\ rl_pc = "write"
    /\ \E inner \in {Ok(w) : w \in 0..(len - start)}
                     \cup {Err(e) : e \in IoErrors} :
          LET w == IF IsOk(inner) THEN inner.val ELSE 0
          IN  /\ rl_ret' = AnonPipeReturn("write", inner)
              /\ rl_out' = rl_out \o SubSeq(buf, start + 1, start + w)
    /\ rl_pc' = "wrote"
    /\ UNCHANGED <<buf, len, start, rl_in, rl_why>>
    /\ UNCHANGED notRl

\* a slip: start = written
RelayAdvanceTo(s, w) == w

\* start += written
RelayAdvance(s, w) == s + w

\* the body of the inner loop: start += written; if start == len { continue
\* 'reader; }, and the `break` after the loop when the write failed
RelayWrote ==
    /\ rl_pc = "wrote"
    /\ IF IsErr(rl_ret)
       THEN RelayExit("write error") /\ UNCHANGED start
       ELSE /\ start' = RelayAdvance(start, rl_ret.val)
            /\ rl_pc' = IF start' = len THEN "read" ELSE "write"
            /\ UNCHANGED rl_why
    /\ UNCHANGED <<buf, len, rl_ret, rl_in, rl_out>>
    /\ UNCHANGED notRl

InitRelay ==
    /\ rl_pc = "read"
    /\ buf = ZeroBuf
    /\ len = 0
    /\ start = 0
    /\ rl_ret = None
    /\ rl_in = <<>>
    /\ rl_out = <<>>
    /\ rl_why = "none"
    /\ PipesIdle
    /\ IoIdle
    /\ Read2Idle
    /\ RandIdle

NextRelay ==
    \/ RelayRead
    \/ RelayWrite
    \/ RelayWrote

SpecRelay == InitRelay /\ [][NextRelay]_vars

\* the thread runs until it leaves the loop
SpecRelayLive == InitRelay /\ [][NextRelay]_vars /\ WF_vars(NextRelay)

----------------------------------------------------------------------------
(* The relay: claims C11 and C18 *)

IsPrefix(a, b) == Len(a) <= Len(b) /\ SubSeq(b, 1, Len(a)) = a

\* C11: what the relay has written is a prefix of what it has read; before
\* each write exactly the bytes buf[start..len] of the chunk are still
\* unwritten, so a partly accepted chunk is continued at its first unwritten
\* byte; when the thread leaves after a read of no byte, all it read is
\* written.
C11_RelayFaithful ==
    /\ IsPrefix(rl_out, rl_in)
    /\ rl_pc = "write" =>
          /\ start < len
          /\ rl_in = rl_out \o SubSeq(buf, start + 1, len)
    /\ rl_pc = "read" => rl_out = rl_in
    /\ rl_why = "end" => rl_out = rl_in

\* the second chunk fills buf and was accepted in part: the next write
\* continues inside it
C11_Witness ==
    /\ rl_pc = "write"
    /\ len = RelayBufLen
    /\ 0 < start
    /\ start < len
    /\ Len(rl_in) > RelayBufLen

\* C18: the thread leaves the loop at the first read of no byte, the first
\* failed read and the first failed write and does nothing afterwards; and
\* after every read of bytes it eventually starts the next read or leaves,
\* whatever the writes accept (any count from 0 on) or report.
C18_RelayLifetime ==
    /\ [][/\ rl_pc = "exit" => UNCHANGED rlVars
          /\ rl_pc = "read" /\ rl_pc' # "read" =>
                (rl_pc' = "exit" <=> IsErr(rl_ret') \/ rl_ret' = Ok(0))
          /\ rl_pc = "wrote" /\ rl_pc' # "wrote" =>
                (rl_pc' = "exit" <=> IsErr(rl_ret))]_vars
    /\ (rl_pc = "write") ~> (rl_pc \in {"read", "exit"})

----------------------------------------------------------------------------
(* random_number, called from the threads of Threads *)

\* thread t calls random_number()
RnCall(t) ==
    /\ rn_pc[t] = "idle"
    /\ rn_calls[t] < MaxCalls
    /\ rn_pc' = [rn_pc EXCEPT ![t] = "load"]
    /\ UNCHANGED <<N, rn_calls, rn_ret, seedings, reseeded>>
    /\ UNCHANGED notRn

\* if N.load(SeqCst) != 0 { .. }
RnLoad(t) ==
    /\ rn_pc[t] = "load"
    /\ rn_pc' = [rn_pc EXCEPT ![t] = IF N # 0 THEN "fetch" ELSE "store"]
    /\ UNCHANGED <<N, rn_calls, rn_ret, seedings, reseeded>>
    /\ UNCHANGED notRn

\* N.store(hashmap_random_keys().0 as usize, SeqCst), then the loop again
RnStore(t) ==
    /\ rn_pc[t] = "store"
    /\ \E seed \in 1..MaxSeed : N' = seed
    /\ seedings' = seedings + 1
    /\ reseeded' = (reseeded \/ N # 0)
    /\ rn_pc' = [rn_pc EXCEPT ![t] = "load"]
    /\ UNCHANGED <<rn_calls, rn_ret>>
    /\ UNCHANGED notRn

\* return N.fetch_add(1, SeqCst)
RnFetch(t) ==
    /\ rn_pc[t] = "fetch"
    /\ rn_ret' = [rn_ret EXCEPT ![t] = N]
    /\ N' = N + 1
    /\ rn_calls' = [rn_calls EXCEPT ![t] = @ + 1]
    /\ rn_pc' = [rn_pc EXCEPT ![t] = "idle"]
    /\ UNCHANGED <<seedings, reseeded>>
    /\ UNCHANGED notRn

\* no call has been made in the process: N is 0
InitRand ==
    /\ RandIdle
    /\ PipesIdle
    /\ IoIdle
    /\ Read2Idle
    /\ RelayIdle

NextRand ==
    \/ \E t \in Threads : RnCall(t)
    \/ \E t \in Threads : RnLoad(t)
    \/ \E t \in Threads : RnStore(t)
    \/ \E t \in Threads : RnFetch(t)

SpecRand == InitRand /\ [][NextRand]_vars

----------------------------------------------------------------------------
(* random_number under concurrency: claim C20 *)

\* C20: the counter is seeded exactly once: no thread stores a seed into a
\* counter that is no longer 0, whatever the interleaving of the threads'
\* first calls.
C20_SeededOnce ==
    /\ seedings <= 1
    /\ ~reseeded

----------------------------------------------------------------------------
(* The slice offered to a read: claim C21 *)

\* the length of the slice slice_to_end returns for v
Room(v) == slice_to_end(v).cap - slice_to_end(v).len

\* C21: slice_to_end returns a slice of at least one byte for every vector
\* read2 meets (never allocated, full, or with room left) and keeps its
\* length, so each read given to the kernel has room for a byte, and
\* schedule_read returns false only at the end of the stream: the peer has
\* closed and the pipe is empty.
C21_SliceNonEmpty ==
    \A i \in Sides :
        /\ Room(dst[i]) >= 1
        /\ slice_to_end(dst[i]).len = dst[i].len
        /\ kread[i].st # "none" => kread[i].size >= 1
        /\ r2_ret = [fn |-> "schedule_read", side |-> i, val |-> Ok(FALSE)] =>
              closed[i] /\ pipe[i] = <<>>

\* side 1, whose vector was full at the call, has reserved room and found the
\* end of its stream at once; side 2, whose vector had no allocation, has a
\* read pending on the room reserved for it
C21_Witness ==
    /\ r2_ret = [fn |-> "schedule_read", side |-> 1, val |-> Ok(FALSE)]
    /\ v0[1] = <<0>>
    /\ dst[1].cap > dst[1].len
    /\ written[1] > 0
    /\ v0[2] = <<>>
    /\ kread[2].st = "pending"
    /\ kread[2].size >= 1
    /\ dst[2].cap > 0

----------------------------------------------------------------------------
(* The events at the wait of read2: claim C22 *)

\* C22: whenever read2 is at WaitForMultipleObjects, a side whose event is
\* not signaled is in state Reading with its read pending at the kernel, and
\* a side in state NotReading or Read(n) has its event signaled; so the wait
\* blocks only while both sides have a read pending.
C22_WaitOnScheduledReads ==
    r2_pc = "wait" =>
        /\ \A i \in Sides :
              /\ ~event[i] => state[i] = Reading /\ kread[i].st = "pending"
              /\ state[i] # Reading => event[i]
        /\ (\A i \in Sides : ~event[i]) =>
              \A i \in Sides : kread[i].st = "pending"

\* the wait blocks: both reads are pending, side 1 for the second time
C22_Witness ==
    /\ r2_pc = "wait"
    /\ \A i \in Sides : ~event[i] /\ kread[i].st = "pending"
    /\ dst[1].len > Len(v0[1])

----------------------------------------------------------------------------
(* The vectors after a failed read2: claim C23 *)

R2ReturnedErr == r2_pc = "done" /\ IsErr(r2_result)

\* the bytes of its pipe that the reads of side i have taken
Taken(i) == written[i] - Len(pipe[i])

\* C23: a destructor that finds Read(n) or NotReading leaves the vector as
\* it is, one that finds Reading and whose cancel and wait succeed adds the
\* transferred bytes to it, and one that leaks leaves the caller an empty
\* vector.  So when read2 returns an error a leaked side's vector is empty,
\* and every other vector holds what it held at the call followed by the
\* bytes result() committed, in order, without the n bytes of a read still
\* in state Read(n).
C23_OnlyCommittedData ==
    /\ [][TearsDown =>
            LET i == r2_side
            IN  IF leaked'[i]
                THEN state[i] = Reading /\ dst'[i] = Vec(<<>>, 0)
                ELSE IF state[i] = Reading
                THEN /\ dst'[i].len = dst[i].len + kread[i].n
                     /\ Contents(dst'[i]) =
                          Contents(dst[i])
                              \o SubSeq(dst[i].data, dst[i].len + 1,
                                        dst[i].len + kread[i].n)
                ELSE dst'[i] = dst[i]]_vars
    /\ [](R2ReturnedErr =>
            \A i \in Sides :
                IF leaked[i]
                THEN dst[i] = Vec(<<>>, 0)
                ELSE /\ state[i] # Reading
                     /\ LET ready == IF state[i].tag = "Read"
                                     THEN state[i].amt ELSE 0
                        IN  /\ ready = 0 <=> teardown[i].st # "Read"
                            /\ Contents(dst[i]) =
                                 v0[i] \o PeerBytes(i, Taken(i) - ready))

\* read2 has returned an error: side 2 was torn down in state Read(n) and
\* keeps its length, side 1 was leaked and left the caller an empty vector in
\* place of one that held a byte
C23_Witness ==
    /\ R2ReturnedErr
    /\ teardown[2].st = "Read"
    /\ state[2].tag = "Read"
    /\ dst[2].len = Len(v0[2])
    /\ leaked[1]
    /\ v0[1] = <<0>>
    /\ dst[1] = Vec(<<>>, 0)

====
